---- MODULE Spec2Model ----
(***************************************************************************)
(* The CDN cache manager of supabase-on-aws (src/src/supabase-cdn.ts,      *)
(* class CacheManager): an HTTP API function that enqueues invalidation    *)
(* requests on an SQS queue, and a queue consumer function that the SQS    *)
(* event source invokes with batches of at most batchSize records gathered *)
(* for at most maxBatchingWindow seconds, and that calls CloudFront's      *)
(* CreateInvalidation.                                                     *)
(*                                                                         *)
(* The two functions' handlers (src/functions/cdn-cache-manager/api.ts and *)
(* queue-consumer.ts) are not part of the sources at hand; they follow the *)
(* specification's IngestionAPI, BatchAssembler and InvalidationExecutor.  *)
(*                                                                         *)
(* Time is discrete, one Tick per second.  The queue honours its leases: a *)
(* message is delivered again only after its visibility timeout.  The      *)
(* queue's retention period (days) is not modelled.                        *)
(***************************************************************************)
EXTENDS Naturals, Sequences, FiniteSets

VARIABLES
    state,      \* state[m]: where message m of the queue is
    path,       \* path[m]: the normalized path message m carries
    lease,      \* lease[m]: seconds of visibility timeout left
    rc,         \* rc[m]: the queue's receive count of m
    worker,     \* worker[w]: one poller/consumer of the event source
    outcome,    \* the outcome of the last CreateInvalidation call
    bulk        \* the pipeline under a load of requests for distinct paths

vars == <<state, path, lease, rc, worker, outcome, bulk>>

-----------------------------------------------------------------------------
(* Bounds of the model *)

MaxMsgs == 2
NumWorkers == 2
MaxReceiveCount == 3
MaxBulk == 101

Ids == 1..MaxMsgs
Workers == 1..NumWorkers

-----------------------------------------------------------------------------
(* Configuration of the construct *)

\* new SqsEventSource(queue, { batchSize: 100, ... })
batchSize == 100

\* new SqsEventSource(queue, { ..., maxBatchingWindow: cdk.Duration.seconds(5) })
maxBatchingWindow == 5

\* Mutant: a visibility timeout no longer than the batching window
ShortVisibilityTimeout == maxBatchingWindow

\* new sqs.Queue(this, 'Queue'): no visibilityTimeout given, the queue's
\* default of 30 seconds applies
visibilityTimeout == 30

\* new sqs.Queue(this, 'Queue'): no deadLetterQueue given, so the queue has
\* no redrive policy and no dead-letter queue
deadLetterQueue == FALSE

\* Mutant: a consumer that may run as long as the visibility timeout
LongFunctionTimeout == visibilityTimeout

\* new NodejsFunction(this, 'QueueConsumer', {...}): no timeout given, the
\* function's default of 3 seconds applies
functionTimeout == 3

\* The dead-letter threshold of the specification's configuration
MaxRedeliveries == 1

\* The provider's bound on the length of a path
MaxPathLength == 4000

-----------------------------------------------------------------------------
(* PathValidator *)

ControlChars == {"\n", "\t"}

ValidationError == <<"ValidationError">>

RECURSIVE CollapseSlashes(_)
CollapseSlashes(s) ==
    IF Len(s) <= 1 THEN s
    ELSE IF s[1] = "/" /\ s[2] = "/" THEN CollapseSlashes(Tail(s))
    ELSE <<s[1]>> \o CollapseSlashes(Tail(s))

LeadingSlash(s) == IF s[1] = "/" THEN s ELSE <<"/">> \o s

Normalize(raw) == CollapseSlashes(LeadingSlash(raw))

validate(raw) ==
    IF \/ raw = <<>>
       \/ Len(raw) > MaxPathLength
       \/ \E i \in 1..Len(raw) : raw[i] \in ControlChars
    THEN ValidationError
    ELSE Normalize(raw)

RECURSIVE Repeat(_, _)
\* the sequence of n times c
Repeat(c, n) ==
    IF n = 0 THEN <<>>
    ELSE LET half == Repeat(c, n \div 2) IN
         IF n % 2 = 0 THEN half \o half ELSE Append(half \o half, c)

\* a path one character longer than the provider takes
TooLong == Repeat("a", MaxPathLength + 1)

\* The raw paths callers submit
RawInputs ==
    { <<>>, <<"a">>, <<"/", "/", "a">>, <<"/", "b", "/", "*">>,
      <<"b", "/", "/", "*">>, <<"/", "\n">>, TooLong }

-----------------------------------------------------------------------------
(* Helpers *)

Min(a, b) == IF a < b THEN a ELSE b

Range(s) == { s[i] : i \in 1..Len(s) }

\* Mutant: no deduplication, one path per member
KeepAll(s) == s

RECURSIVE Dedupe(_)
\* The distinct elements of s, in the order of their first occurrence
Dedupe(s) ==
    IF s = <<>> THEN <<>>
    ELSE LET front == Dedupe(SubSeq(s, 1, Len(s) - 1))
             last == s[Len(s)]
         IN  IF last \in Range(front) THEN front ELSE Append(front, last)

PathsOf(members) == Dedupe([i \in 1..Len(members) |-> path[members[i]]])

Idle == [phase |-> "idle", timer |-> 0, members |-> <<>>, paths |-> <<>>]

NoPath == <<>>

\* no load: nothing visible, nothing hidden, no batch
NoLoad == [visible |-> 0, hidden |-> 0, phase |-> "idle", batch |-> 0, timer |-> 0]

-----------------------------------------------------------------------------
Init ==
    /\ state = [m \in Ids |-> "unsent"]
    /\ path = [m \in Ids |-> NoPath]
    /\ lease = [m \in Ids |-> 0]
    /\ rc = [m \in Ids |-> 0]
    /\ worker = [w \in Workers |-> Idle]
    /\ outcome = "none"
    /\ bulk = NoLoad

-----------------------------------------------------------------------------
(* The queue: a standard SQS queue with the default visibility timeout *)

Unsent == { m \in Ids : state[m] = "unsent" }

NextId == CHOOSE m \in Unsent : \A n \in Unsent : m <= n

\* the message is in the queue and no consumer holds a lease on it
Visible(m) == state[m] = "visible"

\* enqueue: the message becomes visible to the consumers
SendMessage(st, m) == [st EXCEPT ![m] = "visible"]

\* receive: the message is leased to one consumer and hidden from the others
ReceiveMessage(st, m) == [st EXCEPT ![m] = "inflight"]

\* acknowledge: the message is deleted from the queue
DeleteMessage(st, m) ==
    IF st[m] \in {"visible", "inflight"} THEN [st EXCEPT ![m] = "deleted"] ELSE st

\* dead-letter: the message moves to the dead-letter queue, when there is one;
\* this queue has none, and the message stays where it is
DeadLetter(st, m) ==
    IF deadLetterQueue /\ st[m] \in {"visible", "inflight"}
    THEN [st EXCEPT ![m] = "dead"]
    ELSE st

\* Mutant: a message whose lease ran out stays hidden
ExpireNever(st, m) == st

\* the lease of an in-flight message runs out: it is visible again
Expire(st, m) == IF st[m] = "inflight" THEN [st EXCEPT ![m] = "visible"] ELSE st

\* the redrive policy: a message received more than maxReceiveCount times
\* moves to the dead-letter queue instead of being delivered
Redrive(m) == deadLetterQueue /\ rc[m] > MaxRedeliveries

RECURSIVE ApplyAll(_, _, _)
\* Op applied to st for each message of the sequence ms
ApplyAll(Op(_, _), st, ms) ==
    IF ms = <<>> THEN st ELSE ApplyAll(Op, Op(st, Head(ms)), Tail(ms))

-----------------------------------------------------------------------------
(* ApiFunction: POST invalidate(path) *)

Responses == {202, 400, 503}

\* Mutant: the message is enqueued before the path is validated
ApiFunctionEnqueueFirst(raw, queueUp, response) ==
    /\ queueUp
    /\ Unsent # {}
    /\ response = IF validate(raw) = ValidationError THEN 400 ELSE 202
    /\ state' = SendMessage(state, NextId)
    /\ path' = [path EXCEPT ![NextId] = raw]
    /\ UNCHANGED <<lease, rc, worker, outcome, bulk>>

\* The call answers 400 (ValidationError) and 503 (QueueUnavailable) without
\* enqueuing, or enqueues one message and answers 202 (accepted).
ApiFunction(raw, queueUp, response) ==
    \/ /\ response = 400
       /\ UNCHANGED vars
       /\ validate(raw) = ValidationError
    \/ /\ response = 503
       /\ UNCHANGED vars
       /\ ~queueUp
       /\ validate(raw) # ValidationError
    \/ /\ response = 202
       /\ queueUp
       /\ Unsent # {}
       /\ UNCHANGED <<lease, rc, worker, outcome, bulk>>
       /\ validate(raw) # ValidationError
       /\ state' = SendMessage(state, NextId)
       /\ path' = [path EXCEPT ![NextId] = validate(raw)]

-----------------------------------------------------------------------------
(* The SQS event source: gathers a batch for the consumer *)

\* Mutant: off by one, a batch of batchSize records is not yet full
SizeTriggerLate(n) == n > batchSize

\* a batch of n records is full
SizeTrigger(n) == n >= batchSize

\* Mutant: the window closes one second late
WindowTriggerLate(timer) == timer > maxBatchingWindow

\* the batching window is over
WindowTrigger(timer) == timer >= maxBatchingWindow

\* the event source may add a record to the batch it gathers: a batch that
\* is full or whose window is over has been handed to the consumer
MayGather(w) == worker[w].phase \in {"idle", "collecting"}

\* the batch is closed and handed to the consumer
Closed(members) ==
    [phase |-> "running", timer |-> 0, members |-> members, paths |-> PathsOf(members)]

Poll(w, m) ==
    /\ Visible(m)
    /\ MayGather(w)
    /\ UNCHANGED <<path, outcome, bulk>>
    /\ IF Redrive(m)
       THEN /\ state' = DeadLetter(state, m)
            /\ UNCHANGED <<lease, rc, worker>>
       ELSE LET members == Append(worker[w].members, m) IN
            /\ state' = ReceiveMessage(state, m)
            /\ lease' = [lease EXCEPT ![m] = visibilityTimeout]
            /\ rc' = [rc EXCEPT ![m] = Min(rc[m] + 1, MaxReceiveCount)]
            /\ worker' = [worker EXCEPT ![w] =
                  IF SizeTrigger(Len(members)) THEN Closed(members)
                  ELSE [phase |-> "collecting", timer |-> worker[w].timer,
                        members |-> members, paths |-> <<>>]]

CloseWindow(w) ==
    /\ worker[w].phase = "collecting"
    /\ WindowTrigger(worker[w].timer)
    /\ worker' = [worker EXCEPT ![w] = Closed(worker[w].members)]
    /\ UNCHANGED <<state, path, lease, rc, outcome, bulk>>

-----------------------------------------------------------------------------
(* QueueConsumer: one CreateInvalidation call for the batch *)

Running(w) == worker[w].phase = "running"

\* the members of the batch whose path is in the set ps
MembersOf(w, ps) == SelectSeq(worker[w].members, LAMBDA m : path[m] \in ps)

\* the provider accepts all the paths: every member is acknowledged
OnSuccess(st, w) == ApplyAll(DeleteMessage, st, worker[w].members)

\* the provider rejects the paths of failed and accepts the others
OnRejected(st, w, failed) ==
    LET paths == Range(worker[w].paths) IN
    ApplyAll(DeadLetter,
             ApplyAll(DeleteMessage, st, MembersOf(w, paths \ failed)),
             MembersOf(w, failed))

\* the call fails as a whole (rate limit, timeout): nothing is acknowledged
OnProviderError(st, w) == st

Finish(w, st, result) ==
    /\ state' = st
    /\ outcome' = result
    /\ lease' = [m \in Ids |-> IF st[m] = "inflight" THEN lease[m] ELSE 0]
    /\ worker' = [worker EXCEPT ![w] = Idle]
    /\ UNCHANGED <<path, rc, bulk>>

InvokeSuccess(w) ==
    /\ Running(w)
    /\ worker[w].timer < functionTimeout
    /\ Finish(w, OnSuccess(state, w), "invalidationId")

InvokeRejected(w, failed) ==
    /\ Running(w)
    /\ worker[w].timer < functionTimeout
    /\ failed # {}
    /\ failed \subseteq Range(worker[w].paths)
    /\ Finish(w, OnRejected(state, w, failed), "failedPaths")

InvokeProviderError(w) ==
    /\ Running(w)
    /\ Finish(w, OnProviderError(state, w), "providerError")

-----------------------------------------------------------------------------
(* Time *)

\* a second may pass unless a deadline is due
MayTick ==
    \A w \in Workers :
        /\ worker[w].phase = "collecting" => ~WindowTrigger(worker[w].timer)
        /\ worker[w].phase = "running" => worker[w].timer < functionTimeout

Expired == { m \in Ids : state[m] = "inflight" /\ lease[m] <= 1 }

RECURSIVE ExpireAll(_, _)
ExpireAll(st, ms) ==
    IF ms = {} THEN st
    ELSE LET m == CHOOSE x \in ms : TRUE IN ExpireAll(Expire(st, m), ms \ {m})

Tick ==
    /\ MayTick
    /\ state' = ExpireAll(state, Expired)
    /\ lease' = [m \in Ids |-> IF state[m] = "inflight" /\ lease[m] > 1
                               THEN lease[m] - 1 ELSE 0]
    /\ worker' = [w \in Workers |->
                    IF worker[w].phase = "idle" THEN worker[w]
                    ELSE [worker[w] EXCEPT !.timer = @ + 1]]
    /\ UNCHANGED <<path, rc, outcome, bulk>>

-----------------------------------------------------------------------------
Next ==
    \/ \E raw \in RawInputs, queueUp \in BOOLEAN, response \in Responses :
           ApiFunction(raw, queueUp, response)
    \/ \E w \in Workers, m \in Ids : Poll(w, m)
    \/ \E w \in Workers : CloseWindow(w)
    \/ \E w \in Workers : InvokeSuccess(w)
    \/ \E w \in Workers : \E failed \in SUBSET Range(worker[w].paths) :
           InvokeRejected(w, failed)
    \/ \E w \in Workers : InvokeProviderError(w)
    \/ Tick

Spec == Init /\ [][Next]_vars

-----------------------------------------------------------------------------
(* The same pipeline under load: many requests, each for a path of its own, *)
(* counted instead of named, and one consumer.                             *)

tracked == <<state, path, lease, rc, worker, outcome>>

InSystem == bulk.visible + bulk.hidden + bulk.batch

\* ApiFunction accepts one more request
BulkApiFunction ==
    /\ InSystem < MaxBulk
    /\ bulk' = [bulk EXCEPT !.visible = @ + 1]
    /\ UNCHANGED tracked

\* the event source receives one more record
BulkPoll ==
    /\ bulk.visible > 0
    /\ bulk.phase \in {"idle", "collecting"}
    /\ bulk' = [bulk EXCEPT
                  !.visible = @ - 1,
                  !.batch = @ + 1,
                  !.phase = IF SizeTrigger(bulk.batch + 1) THEN "running" ELSE "collecting",
                  !.timer = IF SizeTrigger(bulk.batch + 1) THEN 0 ELSE @]
    /\ UNCHANGED tracked

BulkCloseWindow ==
    /\ bulk.phase = "collecting"
    /\ WindowTrigger(bulk.timer)
    /\ bulk' = [bulk EXCEPT !.phase = "running", !.timer = 0]
    /\ UNCHANGED tracked

\* the records that a dead-lettering removes from the queue
DeadLettered(k) == IF deadLetterQueue THEN k ELSE 0

BulkInvokeSuccess ==
    /\ bulk.phase = "running"
    /\ bulk' = [bulk EXCEPT !.phase = "idle", !.batch = 0]
    /\ UNCHANGED tracked

\* the provider rejects k of the paths
BulkInvokeRejected(k) ==
    /\ bulk.phase = "running"
    /\ k \in 1..bulk.batch
    /\ bulk' = [bulk EXCEPT !.phase = "idle", !.batch = 0,
                            !.hidden = @ + (k - DeadLettered(k))]
    /\ UNCHANGED tracked

BulkInvokeProviderError ==
    /\ bulk.phase = "running"
    /\ bulk' = [bulk EXCEPT !.phase = "idle", !.batch = 0, !.hidden = @ + bulk.batch]
    /\ UNCHANGED tracked

\* the lease of one hidden record runs out
BulkExpire ==
    /\ bulk.hidden > 0
    /\ bulk' = [bulk EXCEPT !.hidden = @ - 1, !.visible = @ + 1]
    /\ UNCHANGED tracked

\* a second of the batching window passes
BulkTick ==
    /\ bulk.phase = "collecting"
    /\ ~WindowTrigger(bulk.timer)
    /\ bulk' = [bulk EXCEPT !.timer = @ + 1]
    /\ UNCHANGED tracked

BulkNext ==
    \/ BulkApiFunction
    \/ BulkPoll
    \/ BulkCloseWindow
    \/ BulkInvokeSuccess
    \/ \E k \in 1..batchSize : BulkInvokeRejected(k)
    \/ BulkInvokeProviderError
    \/ BulkExpire
    \/ BulkTick

BulkSpec == Init /\ [][BulkNext]_vars

-----------------------------------------------------------------------------
(* Scheduling: time passes, the event source keeps polling and invoking,    *)
(* every invocation ends. Nothing obliges the provider to succeed.          *)

Invoke(w) ==
    \/ InvokeSuccess(w)
    \/ \E failed \in SUBSET Range(worker[w].paths) : InvokeRejected(w, failed)
    \/ InvokeProviderError(w)

Fairness ==
    /\ WF_vars(Tick)
    /\ \A w \in Workers : WF_vars(CloseWindow(w))
    /\ \A w \in Workers : WF_vars(Invoke(w))
    /\ \A w \in Workers, m \in Ids : SF_vars(Poll(w, m))

FairSpec == Spec /\ Fairness

\* The provider is down: every CreateInvalidation call fails as a whole.
OutageNext ==
    \/ \E raw \in RawInputs, queueUp \in BOOLEAN, response \in Responses :
           ApiFunction(raw, queueUp, response)
    \/ \E w \in Workers, m \in Ids : Poll(w, m)
    \/ \E w \in Workers : CloseWindow(w)
    \/ \E w \in Workers : InvokeProviderError(w)
    \/ Tick

OutageSpec == Init /\ [][OutageNext]_vars /\ Fairness

-----------------------------------------------------------------------------
(* Properties *)

Sent == { m \in Ids : state[m] # "unsent" }

Held(w) == Range(worker[w].members)

Settled(m) == state[m] \in {"deleted", "dead"}

\* C1: under fair scheduling every accepted request is eventually
\* acknowledged after a successful call for its path, or dead-lettered; none
\* stays pending or in flight forever.
C1_EveryRequestSettled ==
    \A m \in Ids : (state[m] \in {"visible", "inflight"}) ~> Settled(m)

\* C2: the batch handed to the consumer holds at least one and at most
\* batchSize paths, whatever the number of pending messages.
C2_BatchSizeBounded ==
    bulk.phase = "running" => (1 <= bulk.batch /\ bulk.batch <= batchSize)

\* a batch of batchSize paths is handed over while more requests are pending
C2_Witness ==
    bulk.phase = "running" /\ bulk.batch = batchSize /\ bulk.visible > 0

\* leased, and in the batch of no consumer: the call for its batch failed
Unheld(m) == state[m] = "inflight" /\ \A w \in Workers : m \notin Held(w)

\* C3: a call that fails as a whole acknowledges and dead-letters nothing:
\* every member stays leased, is visible again when its lease runs out, and
\* is then a member of a later batch.
C3_ProviderErrorKeepsMessages ==
    /\ [][ /\ \A w \in Workers :
                InvokeProviderError(w) =>
                   \A m \in Held(w) :
                       /\ state'[m] = state[m]
                       /\ state[m] = "inflight" =>
                             Unheld(m)' /\ lease'[m] \in 1..visibilityTimeout
           /\ Tick => \A m \in Ids :
                         (state[m] = "inflight" /\ lease[m] <= 1) => state'[m] = "visible"
         ]_vars
    /\ \A m \in Ids : Unheld(m) ~> (\E w \in Workers : m \in Held(w))

\* after a failed call a member is in a batch again, delivered a second time
C3_Witness ==
    /\ outcome = "providerError"
    /\ \E w \in Workers : \E m \in Held(w) : rc[m] >= 2 /\ state[m] = "inflight"

\* C4: on a partial rejection the members whose path was rejected are
\* dead-lettered and the others acknowledged; no rejected member goes back to
\* the queue.
C4_RejectedAreDeadLettered ==
    [][ \A w \in Workers : \A failed \in SUBSET Range(worker[w].paths) :
          InvokeRejected(w, failed) =>
             \A m \in Held(w) :
                /\ path[m] \in failed => state'[m] = "dead"
                /\ path[m] \notin failed => state'[m] = "deleted"
      ]_vars

NoDuplicates(s) == \A i, j \in 1..Len(s) : s[i] = s[j] => i = j

\* C5: a path carried by several messages of a batch occurs once in the
\* batch's paths, every message stays a member, and a successful call
\* acknowledges them all.
C5_DuplicatesShareOnePath ==
    [][ \A w \in Workers :
          /\ (worker'[w].phase = "running") =>
                /\ NoDuplicates(worker'[w].paths)
                /\ Range(worker'[w].paths) = { path'[m] : m \in Range(worker'[w].members) }
                /\ NoDuplicates(worker'[w].members)
          /\ InvokeSuccess(w) => \A m \in Held(w) : state'[m] = "deleted"
      ]_vars

\* two messages with the same path are in one batch of one path
C5_Witness ==
    \E w \in Workers :
        /\ worker[w].phase = "running"
        /\ Len(worker[w].members) = 2
        /\ Len(worker[w].paths) = 1

\* C6: a message redelivered more than MaxRedeliveries times is dead-lettered,
\* so no message is delivered more than MaxRedeliveries + 1 times.
C6_RedeliveriesBounded ==
    \A m \in Ids : rc[m] > MaxRedeliveries + 1 => state[m] = "dead"

\* C7: an accepted call adds exactly one message to the queue and touches no
\* batch; a rejected call (invalid path, queue unavailable) changes nothing.
C7_OneEnqueuePerAcceptedCall ==
    [][ \A raw \in RawInputs, queueUp \in BOOLEAN, response \in Responses :
          ApiFunction(raw, queueUp, response) =>
             /\ response = IF validate(raw) = ValidationError THEN 400
                           ELSE IF ~queueUp THEN 503 ELSE 202
             /\ UNCHANGED <<lease, rc, worker, outcome>>
             /\ response = 202 =>
                   \E m \in Ids :
                      /\ Sent' = Sent \cup {m} /\ m \notin Sent
                      /\ state'[m] = "visible"
                      /\ path'[m] = validate(raw)
                      /\ \A n \in Ids \ {m} : state'[n] = state[n] /\ path'[n] = path[n]
             /\ response # 202 => UNCHANGED <<state, path>>
      ]_vars

\* a call is accepted while a batch is open, and its message waits in the queue
C7_Witness ==
    /\ \E m \in Ids : state[m] = "visible" /\ rc[m] = 0
    /\ \E w \in Workers : worker[w].phase = "collecting"

C9_NoMessageInTwoBatches ==
    /\ \A w1, w2 \in Workers : w1 # w2 => Held(w1) \cap Held(w2) = {}
    /\ \A w \in Workers : \A m \in Held(w) : state[m] = "inflight" /\ lease[m] >= 1

\* both consumers hold a batch, and a message leased earlier is redelivered
C9_Witness ==
    /\ \A w \in Workers : Held(w) # {}
    /\ \E m \in Ids : rc[m] >= 2

Transition(a, b) ==
    \/ a = b
    \/ a = "unsent" /\ b = "visible"
    \/ a = "visible" /\ b = "inflight"
    \/ a = "inflight" /\ b \in {"deleted", "visible", "dead"}

\* C10: a request goes Pending -> InBatch -> Acknowledged, back to Pending, or
\* DeadLettered, and the last two are final; a request in a batch is InBatch.
C10_RequestStateMachine ==
    [][ \A m \in Ids :
          /\ Transition(state[m], state'[m])
          /\ (state'[m] = "inflight") = (lease'[m] > 0)
          /\ (\E w \in Workers : m \in Range(worker'[w].members)) => state'[m] = "inflight"
      ]_vars

\* a request is acknowledged after it was redelivered
C10_Witness ==
    \E m \in Ids : state[m] = "deleted" /\ rc[m] >= 2

====
